---- MODULE Spec2Model ----
(***************************************************************************)
(* Festival wish bot: the daily orchestrator (runDaily), the generation    *)
(* cache (wishCache / makeAIWish / getFestivalImage), the settings store   *)
(* (guildConfigs / saveConfigs) and the four slash-command handlers.       *)
(*                                                                         *)
(* JavaScript runs each handler to completion between two awaits, so an    *)
(* action of this model is the code between two suspension points of an    *)
(* invocation: it ends at the next await of an external call (event fetch, *)
(* channel fetch, text provider, image provider, send) or at the end of    *)
(* the invocation.  Strings are TLA+ strings; the text of a wish and the   *)
(* URL of an image are records that keep what the code looks at (whether   *)
(* the value is empty, and the length of a trimmed provider text).         *)
(***************************************************************************)
EXTENDS Integers, Sequences, FiniteSets, TLC

(***************************************************************************)
(* Bounds of the model.                                                    *)
(***************************************************************************)
\* slash commands handled plus writeFileSync calls that throw, in a behaviour
MaxUpsets == 1
\* sends that are rejected, in a behaviour
MaxRejects == 1

(***************************************************************************)
(* Strings: lower-casing, substring test, join.                            *)
(***************************************************************************)
lowerChar(c) ==
  CASE c = "A" -> "a" [] c = "B" -> "b" [] c = "C" -> "c" [] c = "D" -> "d"
    [] c = "E" -> "e" [] c = "F" -> "f" [] c = "G" -> "g" [] c = "H" -> "h"
    [] c = "I" -> "i" [] c = "J" -> "j" [] c = "K" -> "k" [] c = "L" -> "l"
    [] c = "M" -> "m" [] c = "N" -> "n" [] c = "O" -> "o" [] c = "P" -> "p"
    [] c = "Q" -> "q" [] c = "R" -> "r" [] c = "S" -> "s" [] c = "T" -> "t"
    [] c = "U" -> "u" [] c = "V" -> "v" [] c = "W" -> "w" [] c = "X" -> "x"
    [] c = "Y" -> "y" [] c = "Z" -> "z" [] OTHER -> c

RECURSIVE toLowerCase(_)
toLowerCase(s) ==
  IF Len(s) = 0 THEN ""
  ELSE lowerChar(SubSeq(s, 1, 1)) \o toLowerCase(SubSeq(s, 2, Len(s)))

\* String.prototype.includes / an unanchored regex alternative
includes(s, k) ==
  \E i \in 1..(Len(s) - Len(k) + 1) : SubSeq(s, i, i + Len(k) - 1) = k

RECURSIVE join(_, _)
join(arr, sep) ==
  IF Len(arr) = 0 THEN ""
  ELSE IF Len(arr) = 1 THEN arr[1]
  ELSE arr[1] \o sep \o join(Tail(arr), sep)

(***************************************************************************)
(* classifyFaith and isMajorFestival.                                      *)
(***************************************************************************)
HinduWords == {"diwali","deepavali","navratri","holi","ram navami","krishna",
               "janmashtami","ganesh","chaturthi","mahashivratri","dussehra",
               "vijayadashami","pongal","makar sankranti","onam",
               "raksha bandhan","karva","karwa"}
MuslimWords == {"eid","fitr","adha","ramadan","ramzan","milad","mawlid",
                "ashura","muharram","shab-e-barat"}
ChristianWords == {"christ","christmas","easter","good friday","palm sunday",
                   "epiphany"}

\* a faulty variant of classifyFaith: the muslim keywords are tried first
classifyFaithMuslimFirst(name) ==
  LET n == toLowerCase(name) IN
  IF \E w \in MuslimWords : includes(n, w) THEN "muslim"
  ELSE IF \E w \in HinduWords : includes(n, w) THEN "hindu"
  ELSE IF \E w \in ChristianWords : includes(n, w) THEN "christian"
  ELSE ""

classifyFaith(name) ==
  LET n == toLowerCase(name) IN
  IF \E w \in HinduWords : includes(n, w) THEN "hindu"
  ELSE IF \E w \in MuslimWords : includes(n, w) THEN "muslim"
  ELSE IF \E w \in ChristianWords : includes(n, w) THEN "christian"
  ELSE ""

ALLOW == {"diwali","deepavali","navratri","holi","dussehra","vijayadashami",
          "janmashtami","krishna janmashtami","ram navami","ganesh chaturthi",
          "maha shivaratri","mahashivratri","pongal","makar sankranti","onam",
          "raksha bandhan","karva chauth","karwa chauth",
          "eid al-fitr","eid-ul-fitr","eid al adha","eid-ul-adha",
          "eid al-adha","eid-e-milad","milad-un-nabi","mawlid an-nabi",
          "ashura","muharram","shab-e-barat",
          "christmas","good friday","easter","palm sunday"}

isMajorFestival(item) ==
  LET n == toLowerCase(item.name)
      t == toLowerCase(join(item.type, " "))
      p == toLowerCase(item.primary_type)
  IN  IF \E key \in ALLOW : includes(n, key) THEN TRUE
      ELSE IF includes(p, "relig") /\ ~includes(t, "observance") THEN TRUE
      ELSE IF includes(t, "national holiday") THEN TRUE
      ELSE FALSE

(***************************************************************************)
(* The environment: guilds and their channels, today's holidays, and the   *)
(* outcomes the external providers can produce.                            *)
(***************************************************************************)
GuildOrder == <<"g1", "g2">>      \* client.guilds.cache.values()
Guilds == {GuildOrder[i] : i \in 1..Len(GuildOrder)}

GuildChannels(g) ==               \* g.channels.cache, in cache order
  IF g = "g1"
  THEN << [id |-> "v1", type |-> "GuildVoice",   name |-> "general"],
          [id |-> "c1", type |-> "GuildText",    name |-> "chat"] >>
  ELSE << [id |-> "t2", type |-> "PublicThread", name |-> "festival-thread"],
          [id |-> "a2", type |-> "GuildText",    name |-> "General"] >>

NoChannel == [id |-> "", type |-> "", name |-> ""]     \* null / undefined

Diwali   == [name |-> "Diwali/Deepavali", description |-> "",
             type |-> <<"Gazetted Holiday">>, primary_type |-> "Gazetted Holiday"]
Ramzan   == [name |-> "Ramzan Id/Eid-ul-Fitar", description |-> "",
             type |-> <<"Gazetted Holiday">>, primary_type |-> "Gazetted Holiday"]
Republic == [name |-> "Republic Day", description |-> "",
             type |-> <<"National holiday">>, primary_type |-> "National holiday"]

\* what the holiday provider holds for today, and today in the time zone
Holidays == <<Diwali, Republic, Ramzan>>
Today == "2024-11-01"

\* generateContent: it throws, or yields a text of len characters surrounded
\* by ws characters of white space
GeminiOutcomes == { [throws |-> TRUE,  len |-> 0,   ws |-> 0],
                    [throws |-> FALSE, len |-> 219, ws |-> 3],
                    [throws |-> FALSE, len |-> 220, ws |-> 1] }

\* the Pexels search: it throws, or yields a list of photos
Photo(w, h, landscape, large) ==
  [width |-> w, height |-> h, src |-> [landscape |-> landscape, large |-> large]]
PexelsOutcomes == { [throws |-> TRUE,  photos |-> <<>>],
                    [throws |-> FALSE, photos |-> <<>>],
                    [throws |-> FALSE,
                     photos |-> <<Photo(3, 4, "u1", "U1"), Photo(4, 3, "", "U2")>>],
                    [throws |-> FALSE,
                     photos |-> <<Photo(3, 4, "u3", "U3")>>] }

(***************************************************************************)
(* Values of the generation cache: a string is kept as its kind, the name  *)
(* it was made for and its length (a URL keeps its text in name).          *)
(***************************************************************************)
Str(kind, name, len) == [kind |-> kind, name |-> name, len |-> len]
EmptyStr == Str("", "", 0)
Truthy(v) == v.len > 0

MinWishLen == 220
FallbackFixedLen == 179   \* characters of the template around ${name}

\* result?.response?.text()?.trim()
trim(o, name) == Str("ai", name, o.len)
fallbackWish(name) == Str("fallback", name, FallbackFixedLen + Len(name))

cacheKey(iso, label) == iso \o "|" \o label
cacheGet(cache, k) == IF k \in DOMAIN cache THEN cache[k] ELSE EmptyStr

Put(f, k, v) == [j \in (DOMAIN f) \cup {k} |-> IF j = k THEN v ELSE f[j]]

\* cacheSet on the pair (wishCache, wishCache.json); written = FALSE is a
\* writeFileSync that throws after the assignment in memory
cacheSet(c, k, v, written) ==
  [mem  |-> Put(c.mem, k, v),
   file |-> IF written THEN Put(c.mem, k, v) ELSE c.file]

(***************************************************************************)
(* Settings.                                                               *)
(***************************************************************************)
null == "null"
defaultsFor ==
  [channelId |-> null, lang |-> "hinglish",
   religions |-> <<"hindu", "muslim", "christian">>,
   mention |-> "everyone", majorOnly |-> TRUE]

\* { ...defaultsFor(), ...(guildConfigs[g] || {}) }
merged(configs, g) == IF g \in DOMAIN configs THEN configs[g] ELSE defaultsFor

arrayIncludes(arr, v) == \E i \in 1..Len(arr) : arr[i] = v

\* settings a guildConfigs.json left by an earlier process can hold
StoredConfigs ==
  { << >>,
    [g \in {"g2"} |-> [defaultsFor EXCEPT !.religions = <<"muslim">>,
                                          !.majorOnly = FALSE]] }

(***************************************************************************)
(* State.                                                                  *)
(***************************************************************************)
VARIABLES
  genAI,         \* a text provider is configured (GOOGLE_API_KEY)
  clock,         \* "night" before 01:00, "day" from 01:00 on
  ready,         \* ClientReady has fired
  guildConfigs,  \* the settings in memory
  configFile,    \* guildConfigs.json
  wishCache,     \* the cache in memory
  cacheFile,     \* wishCache.json
  run,           \* the invocations of runDaily: run["boot"], run["cron"]
  cmds,          \* slash commands handled so far
  interaction,   \* the last slash command and the reply it got
  faults,        \* writeFileSync calls that threw so far
  sends,         \* history: chan.send calls that returned
  calls,         \* history: provider calls made
  unresolved,    \* history: <<run, guild>> with festivals and no channel
  wishes,        \* history, per key of a wish: the run that made the first
                 \* makeAIWish call, what that call returned, and the first
                 \* accepted provider text a call returned
  probe          \* a name given to classifyFaith on its own, and the result

vars == <<genAI, clock, ready, guildConfigs, configFile, wishCache, cacheFile,
          run, cmds, interaction, faults, sends, calls, unresolved, wishes,
          probe>>

Runs == {"boot", "cron"}

RunInit ==
  [pc |-> "idle", preview |-> FALSE, dateISO |-> "", rawFestivals |-> <<>>,
   gi |-> 0, cfg |-> defaultsFor, festivals |-> <<>>, fi |-> 0,
   chan |-> NoChannel, wishText |-> EmptyStr, imageUrl |-> EmptyStr,
   err |-> FALSE]

NoInteraction == [gid |-> "", cmd |-> "", arg |-> "", reply |-> ""]
NoProbe == [name |-> "", faith |-> "?"]

Init ==
  /\ genAI \in BOOLEAN
  /\ clock = "night"
  /\ ready = FALSE
  /\ configFile \in StoredConfigs
  /\ guildConfigs = configFile
  /\ wishCache = << >>
  /\ cacheFile = << >>
  /\ run = [r \in Runs |-> RunInit]
  /\ cmds = 0
  /\ interaction = NoInteraction
  /\ faults = 0
  /\ sends = {}
  /\ calls = {}
  /\ unresolved = {}
  /\ wishes = << >>
  /\ probe = NoProbe

\* the upsets so far, and the sends that were rejected so far
upsets == cmds + faults
rejects == Cardinality({s \in sends : ~s.ok})

\* a writeFileSync returns (written) or throws, within the budget of upsets
Faulty(written) ==
  /\ written \/ upsets < MaxUpsets
  /\ faults' = IF written THEN faults ELSE faults + 1

\* an invocation is between two awaits: nothing else runs until it suspends
Busy == \E r \in Runs : run[r].pc \in {"guild", "fest", "image"}

(***************************************************************************)
(* runDaily.                                                               *)
(***************************************************************************)
\* runDaily(preview) up to "await fetchCalendarific(...)"
StartRun(preview) ==
  [RunInit EXCEPT !.pc = "fetch", !.preview = preview,
                  !.dateISO = Today]

\* the end of runDaily: after the loop, or in its catch-all
Finished(rr, err) ==
  [RunInit EXCEPT !.pc = "done", !.preview = rr.preview,
                  !.dateISO = rr.dateISO, !.gi = rr.gi, !.err = err]

\* a faulty variant of Caught: the error is caught inside the loop over the
\* guilds and the run goes on with the next guild
CaughtContinue(rr) ==
  [rr EXCEPT !.pc = "guild", !.gi = @ + 1, !.cfg = defaultsFor,
             !.festivals = <<>>, !.fi = 0, !.chan = NoChannel,
             !.wishText = EmptyStr, !.imageUrl = EmptyStr, !.err = TRUE]

Caught(rr) == Finished(rr, TRUE)

\* "continue" / the end of the body of the loop over the guilds
NextIteration(rr) ==
  [rr EXCEPT !.pc = "guild", !.gi = @ + 1, !.cfg = defaultsFor,
             !.festivals = <<>>, !.fi = 0, !.chan = NoChannel,
             !.wishText = EmptyStr, !.imageUrl = EmptyStr]

Range(f) == {f[i] : i \in DOMAIN f}

normalize(h) ==
  [name |-> h.name, description |-> h.description, type |-> h.type,
   primary_type |-> h.primary_type]

mapNormalize(hs) == [i \in 1..Len(hs) |-> normalize(hs[i])]

\* classifyFaith and isMajorFestival of the holidays, evaluated once
faithOf == [h \in Range(mapNormalize(Holidays)) |-> classifyFaith(h.name)]
majorOf == [h \in Range(mapNormalize(Holidays)) |-> isMajorFestival(h)]

\* a faulty variant of the filter: the majorOnly test is left out
festivalFilterNoMajor(cfg, f) ==
  LET faith == faithOf[f]
  IN  IF faith # "" THEN arrayIncludes(cfg.religions, faith) ELSE FALSE

\* the filter of rawFestivals
festivalFilter(cfg, f) ==
  LET faith   == faithOf[f]
      faithOk == IF faith # "" THEN arrayIncludes(cfg.religions, faith) ELSE FALSE
      majorOk == IF cfg.majorOnly THEN majorOf[f] ELSE TRUE
  IN  faithOk /\ majorOk

filterFestivals(raw, cfg) ==
  LET keep(f) == festivalFilter(cfg, f) IN SelectSeq(raw, keep)

\* g.channels.cache.find(c => GuildText && announcements|general)
isFallback(c) ==
  c.type = "GuildText" /\ toLowerCase(c.name) \in {"announcements", "general"}

findFallback(g) ==
  LET cs == GuildChannels(g)
      hits == {i \in 1..Len(cs) : isFallback(cs[i])}
  IN  IF hits = {} THEN NoChannel
      ELSE cs[CHOOSE i \in hits : \A j \in hits : i <= j]

fallbackOf == [g \in Guilds |-> findFallback(g)]     \* evaluated once
fallbackChannel(g) == fallbackOf[g]

\* guild.channels.fetch(channelId), then the type test of resolveChannel
fetchChannel(g, id) ==
  LET cs == GuildChannels(g)
      hits == {i \in 1..Len(cs) : cs[i].id = id}
  IN  IF hits = {} THEN NoChannel ELSE cs[CHOOSE i \in hits : TRUE]

resolveChannel(g, id, thrown) ==
  LET ch == fetchChannel(g, id) IN
  IF thrown \/ ch = NoChannel \/ ch.type # "GuildText" THEN NoChannel ELSE ch

ClientReady ==
  /\ ~ready /\ ~Busy
  /\ ready' = TRUE
  /\ run' = [run EXCEPT !["boot"] = StartRun(TRUE)]
  /\ UNCHANGED <<probe, genAI, clock, guildConfigs, configFile, wishCache, cacheFile,
                 cmds, interaction, faults, sends, calls, unresolved, wishes>>

\* 01:00: the cron callback calls runDaily() if the schedule exists
OneAM ==
  /\ clock = "night" /\ ~Busy
  /\ clock' = "day"
  /\ run' = IF ready THEN [run EXCEPT !["cron"] = StartRun(FALSE)] ELSE run
  /\ UNCHANGED <<probe, genAI, ready, guildConfigs, configFile, wishCache, cacheFile,
                 cmds, interaction, faults, sends, calls, unresolved, wishes>>

\* fetchCalendarific returns: the holidays of the date, or [] on any failure
FetchReturn(r) ==
  /\ run[r].pc = "fetch" /\ ~Busy
  /\ \E failed \in BOOLEAN :
       run' = [run EXCEPT ![r].pc = "guild", ![r].gi = 1,
                 ![r].rawFestivals =
                   IF failed THEN <<>>
                   ELSE mapNormalize(Holidays)]
  /\ UNCHANGED <<probe, genAI, clock, ready, guildConfigs, configFile, wishCache,
                 cacheFile, cmds, interaction, faults, sends, calls, unresolved, wishes>>

\* a faulty variant of EnterGuild: "if (!chan) continue" is left out
EnterGuildNoSkip(rr, g, ch) ==
  LET chan == IF ch # NoChannel THEN ch ELSE fallbackChannel(g)
  IN  [rr EXCEPT !.pc = "fest", !.fi = 1, !.chan = chan]

\* after the type test of resolveChannel: the fallback by name, then
\* "if (!chan) continue" or the loop over the festivals
EnterGuild(rr, g, ch) ==
  LET chan == IF ch # NoChannel THEN ch ELSE fallbackChannel(g) IN
  IF chan = NoChannel THEN NextIteration(rr)
  ELSE [rr EXCEPT !.pc = "fest", !.fi = 1, !.chan = chan]

\* the guild has festivals and neither a usable configured channel nor a
\* text channel named announcements or general
noNamedChannel ==
  [g \in Guilds |->
     \A i \in 1..Len(GuildChannels(g)) : ~isFallback(GuildChannels(g)[i])]

NoChannelFor(g, ch) == ch = NoChannel /\ noNamedChannel[g]

\* the head of the loop over the guilds, up to the await in resolveChannel
NextGuild(r) ==
  /\ run[r].pc = "guild"
  /\ IF run[r].gi > Len(GuildOrder)
     THEN /\ run' = [run EXCEPT ![r] = Finished(run[r], FALSE)]
          /\ UNCHANGED unresolved
     ELSE LET g         == GuildOrder[run[r].gi]
              cfg       == merged(guildConfigs, g)
              festivals == filterFestivals(run[r].rawFestivals, cfg)
              rr        == [run[r] EXCEPT !.cfg = cfg, !.festivals = festivals]
          IN  IF Len(festivals) = 0
              THEN /\ run' = [run EXCEPT ![r] = NextIteration(run[r])]
                   /\ UNCHANGED unresolved
              ELSE IF cfg.channelId = null
              THEN /\ run' = [run EXCEPT ![r] = EnterGuild(rr, g, NoChannel)]
                   /\ unresolved' = IF NoChannelFor(g, NoChannel)
                                    THEN unresolved \cup {<<r, g>>}
                                    ELSE unresolved
              ELSE /\ run' = [run EXCEPT ![r] = [rr EXCEPT !.pc = "resolve"]]
                   /\ UNCHANGED unresolved
  /\ UNCHANGED <<probe, genAI, clock, ready, guildConfigs, configFile, wishCache,
                 cacheFile, cmds, interaction, faults, sends, calls, wishes>>

\* guild.channels.fetch returns or throws
ResolveReturn(r) ==
  /\ run[r].pc = "resolve" /\ ~Busy
  /\ \E thrown \in BOOLEAN :
       LET g  == GuildOrder[run[r].gi]
           ch == resolveChannel(g, run[r].cfg.channelId, thrown)
       IN  /\ run' = [run EXCEPT ![r] = EnterGuild(run[r], g, ch)]
           /\ unresolved' = IF NoChannelFor(g, ch)
                            THEN unresolved \cup {<<r, g>>}
                            ELSE unresolved
  /\ UNCHANGED <<probe, genAI, clock, ready, guildConfigs, configFile, wishCache,
                 cacheFile, cmds, interaction, faults, sends, calls, wishes>>

Call(op, r) ==
  [op |-> op, run |-> r, guild |-> GuildOrder[run[r].gi], fi |-> run[r].fi,
   name |-> run[r].festivals[run[r].fi].name]

\* history of the makeAIWish calls for a key: a call begins, a call returns
Began(h, key, r) ==
  IF key \in DOMAIN h THEN h
  ELSE Put(h, key, [by |-> r, got |-> EmptyStr, accepted |-> EmptyStr])

Returned(h, key, r, text) ==
  [h EXCEPT ![key] =
     [by       |-> @.by,
      got      |-> IF @.by = r /\ @.got = EmptyStr THEN text ELSE @.got,
      accepted |-> IF @.accepted = EmptyStr /\ text.kind = "ai" THEN text
                   ELSE @.accepted]]

\* the head of the loop over the festivals: either the end of the guild's
\* processing (guildConfigs[g.id] = cfg; saveConfigs()) or makeAIWish up to
\* its await
NextFest(r) ==
  /\ run[r].pc = "fest"
  /\ LET rr == run[r]
         g  == GuildOrder[rr.gi]
     IN
     IF rr.fi > Len(rr.festivals)
     THEN \E written \in BOOLEAN :
            /\ Faulty(written)
            /\ guildConfigs' = Put(guildConfigs, g, rr.cfg)
            /\ configFile' = IF written THEN guildConfigs' ELSE configFile
            /\ run' = [run EXCEPT ![r] =
                         IF written THEN NextIteration(rr) ELSE Caught(rr)]
            /\ UNCHANGED <<wishCache, cacheFile, calls, wishes>>
     ELSE LET name   == rr.festivals[rr.fi].name
              key    == cacheKey(rr.dateISO, "wish:" \o name)
              cached == cacheGet(wishCache, key)
          IN
          IF Truthy(cached)
          THEN /\ run' = [run EXCEPT ![r].pc = "image", ![r].wishText = cached]
               /\ UNCHANGED <<guildConfigs, configFile, wishCache, cacheFile,
                              calls, faults, wishes>>
          ELSE IF genAI
          THEN /\ run' = [run EXCEPT ![r].pc = "gemini"]
               /\ calls' = calls \cup {Call("gemini", r)}
               /\ wishes' = Began(wishes, key, r)
               /\ UNCHANGED <<guildConfigs, configFile, wishCache, cacheFile,
                              faults>>
          ELSE \E written \in BOOLEAN :
                 LET c == cacheSet([mem |-> wishCache, file |-> cacheFile],
                                   key, fallbackWish(name), written)
                 IN  /\ Faulty(written)
                     /\ wishCache' = c.mem
                     /\ cacheFile' = c.file
                     /\ run' = [run EXCEPT ![r] =
                                  IF written
                                  THEN [rr EXCEPT !.pc = "image",
                                                  !.wishText = fallbackWish(name)]
                                  ELSE Caught(rr)]
                     /\ wishes' = IF written
                                  THEN Returned(Began(wishes, key, r), key, r,
                                                fallbackWish(name))
                                  ELSE Began(wishes, key, r)
                     /\ UNCHANGED <<guildConfigs, configFile, calls>>
  /\ UNCHANGED <<probe, genAI, clock, ready, cmds, interaction, sends, unresolved>>

\* a faulty variant of acceptText: the length test is left out
acceptAny(text) == Truthy(text)

\* "text && text.length >= 220"
acceptText(text) == Truthy(text) /\ text.len >= MinWishLen

\* makeAIWish from the return of generateContent on; w1 and w2 tell whether
\* the writeFileSync of the first and of the second cacheSet returns
makeAIWishTail(c, key, name, o, w1, w2) ==
  LET text     == trim(o, name)
      accepted == ~o.throws /\ acceptText(text)
      c1       == IF accepted THEN cacheSet(c, key, text, w1) ELSE c
      c2       == cacheSet(c1, key, fallbackWish(name), w2)
  IN  IF accepted /\ w1
      THEN [store |-> c1, text |-> text, thrown |-> FALSE, failed |-> 0]
      ELSE [store |-> c2, text |-> fallbackWish(name), thrown |-> ~w2,
            failed |-> (IF accepted THEN 1 ELSE 0) + (IF w2 THEN 0 ELSE 1)]

\* generateContent returns or throws
GeminiReturn(r) ==
  /\ run[r].pc = "gemini" /\ ~Busy
  /\ \E o \in GeminiOutcomes, w1 \in BOOLEAN, w2 \in BOOLEAN :
       LET rr   == run[r]
           name == rr.festivals[rr.fi].name
           key  == cacheKey(rr.dateISO, "wish:" \o name)
           res  == makeAIWishTail([mem |-> wishCache, file |-> cacheFile],
                                  key, name, o, w1, w2)
       IN  /\ res.failed = 0 \/ upsets + res.failed <= MaxUpsets
           /\ faults' = faults + res.failed
           /\ wishCache' = res.store.mem
           /\ cacheFile' = res.store.file
           /\ run' = [run EXCEPT ![r] =
                        IF res.thrown THEN Caught(rr)
                        ELSE [rr EXCEPT !.pc = "image", !.wishText = res.text]]
           /\ wishes' = IF res.thrown THEN wishes
                        ELSE Returned(wishes, key, r, res.text)
  /\ UNCHANGED <<probe, genAI, clock, ready, guildConfigs, configFile, cmds,
                 interaction, sends, calls, unresolved>>

\* fetchPexelsImage after the search returned
fetchPexelsImage(o) ==
  IF o.throws \/ Len(o.photos) = 0 THEN EmptyStr
  ELSE LET wide == {i \in 1..Len(o.photos) :
                      o.photos[i].width >= o.photos[i].height}
           pick == IF wide # {}
                   THEN o.photos[CHOOSE i \in wide : \A j \in wide : i <= j]
                   ELSE o.photos[1]
           u    == IF pick.src.landscape # "" THEN pick.src.landscape
                   ELSE pick.src.large
       IN  Str("url", u, Len(u))

\* getFestivalImage up to its await; on a cache hit the festival goes on to
\* buildEmbed and chan.send
GetImage(r) ==
  /\ run[r].pc = "image"
  /\ LET rr     == run[r]
         name   == rr.festivals[rr.fi].name
         key    == cacheKey(rr.dateISO, "img:" \o name)
         cached == cacheGet(wishCache, key)
     IN  IF Truthy(cached)
         THEN /\ run' = [run EXCEPT ![r].pc = "send", ![r].imageUrl = cached]
              /\ UNCHANGED calls
         ELSE /\ run' = [run EXCEPT ![r].pc = "pexels"]
              /\ calls' = calls \cup {Call("pexels", r)}
  /\ UNCHANGED <<probe, genAI, clock, ready, guildConfigs, configFile, wishCache,
                 cacheFile, cmds, interaction, faults, sends, unresolved, wishes>>

\* the image search returns: "if (url) cacheSet(key, url)", then chan.send
PexelsReturn(r) ==
  /\ run[r].pc = "pexels" /\ ~Busy
  /\ \E o \in PexelsOutcomes, written \in BOOLEAN :
       LET rr   == run[r]
           name == rr.festivals[rr.fi].name
           key  == cacheKey(rr.dateISO, "img:" \o name)
           url  == fetchPexelsImage(o)
           c    == IF Truthy(url)
                   THEN cacheSet([mem |-> wishCache, file |-> cacheFile],
                                 key, url, written)
                   ELSE [mem |-> wishCache, file |-> cacheFile]
       IN  /\ Faulty(Truthy(url) => written)
           /\ wishCache' = c.mem
           /\ cacheFile' = c.file
           /\ run' = [run EXCEPT ![r] =
                        IF Truthy(url) /\ ~written THEN Caught(rr)
                        ELSE [rr EXCEPT !.pc = "send", !.imageUrl = url]]
  /\ UNCHANGED <<probe, genAI, clock, ready, guildConfigs, configFile, cmds,
                 interaction, sends, calls, unresolved, wishes>>

mentionOf(cfg) ==
  IF cfg.mention = "everyone" THEN "@everyone"
  ELSE IF cfg.mention = "here" THEN "@here" ELSE ""

\* a faulty variant of AfterSend: the rejection of chan.send is not caught
\* at the call and reaches the catch-all of runDaily
AfterSendAbort(rr, ok) ==
  IF ok
  THEN [rr EXCEPT !.pc = "fest", !.fi = @ + 1, !.wishText = EmptyStr,
                  !.imageUrl = EmptyStr]
  ELSE Caught(rr)

\* a faulty variant of AfterSend: a rejected send is tried again
AfterSendRetry(rr, ok) ==
  IF ok
  THEN [rr EXCEPT !.pc = "fest", !.fi = @ + 1, !.wishText = EmptyStr,
                  !.imageUrl = EmptyStr]
  ELSE rr

\* after chan.send(...).catch(...): the next festival, sent or not
AfterSend(rr, ok) ==
  [rr EXCEPT !.pc = "fest", !.fi = @ + 1, !.wishText = EmptyStr,
             !.imageUrl = EmptyStr]

\* chan.send returns or is rejected
SendReturn(r) ==
  /\ run[r].pc = "send" /\ ~Busy
  /\ \E ok \in BOOLEAN :
       LET rr == run[r] IN
       /\ ok \/ rejects < MaxRejects
       /\ sends' = sends \cup
            {[run |-> r, guild |-> GuildOrder[rr.gi], fi |-> rr.fi,
              name |-> rr.festivals[rr.fi].name, chan |-> rr.chan.id,
              text |-> rr.wishText, content |-> mentionOf(rr.cfg),
              ok |-> ok]}
       /\ run' = [run EXCEPT ![r] = AfterSend(rr, ok)]
  /\ UNCHANGED <<probe, genAI, clock, ready, guildConfigs, configFile, wishCache,
                 cacheFile, cmds, interaction, faults, calls, unresolved, wishes>>

(***************************************************************************)
(* The slash commands.                                                     *)
(***************************************************************************)
isSeparator(c) == c \in {" ", ","}        \* [\s,]

\* raw.split(/[\s,]+/), from the characters left in s; cur is the piece
\* being read and inSep tells that the last character was a separator
RECURSIVE splitFrom(_, _, _)
splitFrom(s, cur, inSep) ==
  IF Len(s) = 0 THEN <<cur>>
  ELSE LET c    == SubSeq(s, 1, 1)
           rest == SubSeq(s, 2, Len(s))
       IN  IF isSeparator(c)
           THEN IF inSep THEN splitFrom(rest, cur, TRUE)
                ELSE <<cur>> \o splitFrom(rest, "", TRUE)
           ELSE splitFrom(rest, cur \o c, FALSE)

split(s) == splitFrom(s, "", FALSE)

allowed == <<"hindu", "muslim", "christian">>

\* [...new Set(parsed)]: the first occurrence of each element, in order
RECURSIVE unique(_)
unique(arr) ==
  IF Len(arr) = 0 THEN <<>>
  ELSE LET init == unique(SubSeq(arr, 1, Len(arr) - 1))
           last == arr[Len(arr)]
       IN  IF arrayIncludes(init, last) THEN init ELSE Append(init, last)

\* a faulty variant of parseReligions: the words are not filtered against
\* the allowed list
parseReligionsNoFilter(list) == split(toLowerCase(list))

parseReligions(list) ==
  LET raw == toLowerCase(list)
      ok(w) == arrayIncludes(allowed, w)
  IN  SelectSeq(split(raw), ok)

TextCapable == {"GuildText", "PublicThread", "PrivateThread"}
MentionStyles == {"everyone", "here", "none"}

\* arguments the commands are given
ReligionInputs == {"Muslim,, muslim sikh", "jewish, sikh"}
MentionInputs == {"HERE", "all"}

\* a faulty variant of materialize: the stored record is not merged in
materializeBlank(configs, gid) == Put(configs, gid, defaultsFor)

\* guildConfigs[gid] = { ...defaultsFor(), ...(guildConfigs[gid] || {}) }
materialize(configs, gid) == Put(configs, gid, merged(configs, gid))

\* the handler of InteractionCreate for one command: the record of the guild
\* is first replaced by defaults merged with it, then the command is
\* validated, applied and saved
Handle(gid, cmd, arg, valid, field, value) ==
  LET g1 == materialize(guildConfigs, gid) IN
  /\ ready /\ ~Busy /\ upsets < MaxUpsets
  /\ cmds' = cmds + 1
  /\ IF ~valid
     THEN /\ guildConfigs' = g1
          /\ configFile' = configFile
          /\ interaction' = [gid |-> gid, cmd |-> cmd, arg |-> arg,
                             reply |-> "rejected"]
          /\ UNCHANGED faults
     ELSE \E written \in BOOLEAN :
          /\ written \/ upsets + 1 < MaxUpsets   \* the command is an upset too
          /\ faults' = IF written THEN faults ELSE faults + 1
          /\ guildConfigs' = [g1 EXCEPT ![gid][field] = value]
          /\ configFile' = IF written THEN guildConfigs' ELSE configFile
          /\ interaction' = [gid |-> gid, cmd |-> cmd, arg |-> arg,
                             reply |-> IF written THEN "ok" ELSE "error"]
  /\ UNCHANGED <<probe, genAI, clock, ready, wishCache, cacheFile, run, sends, calls,
                 unresolved, wishes>>

validChannel(channel) == channel.type \in TextCapable

SetWishesChannel(gid, channel) ==
  Handle(gid, "setwisheschannel", channel.id, validChannel(channel),
         "channelId", channel.id)

parsedOf == [list \in ReligionInputs |-> parseReligions(list)]  \* once

SetReligions(gid, list) ==
  LET parsed == parsedOf[list] IN
  Handle(gid, "setreligions", list, Len(parsed) # 0,
         "religions", unique(parsed))

validMention(m) == m \in MentionStyles

lowerOf == [mention \in MentionInputs |-> toLowerCase(mention)]   \* once

SetMention(gid, mention) ==
  LET m == lowerOf[mention] IN
  Handle(gid, "setmention", mention, validMention(m), "mention", m)

SetMajor(gid, major_only) ==
  Handle(gid, "setmajor", IF major_only THEN "true" ELSE "false", TRUE,
         "majorOnly", major_only)

(***************************************************************************)
(* The specification.                                                      *)
(***************************************************************************)
Next ==
  \/ ClientReady
  \/ OneAM
  \/ \E r \in Runs : FetchReturn(r)
  \/ \E r \in Runs : NextGuild(r)
  \/ \E r \in Runs : ResolveReturn(r)
  \/ \E r \in Runs : NextFest(r)
  \/ \E r \in Runs : GeminiReturn(r)
  \/ \E r \in Runs : GetImage(r)
  \/ \E r \in Runs : PexelsReturn(r)
  \/ \E r \in Runs : SendReturn(r)
  \/ \E g \in Guilds : \E i \in 1..Len(GuildChannels(g)) :
       SetWishesChannel(g, GuildChannels(g)[i])
  \/ \E g \in Guilds, list \in ReligionInputs : SetReligions(g, list)
  \/ \E g \in Guilds, m \in MentionInputs : SetMention(g, m)
  \/ \E g \in Guilds, b \in BOOLEAN : SetMajor(g, b)

Spec == Init /\ [][Next]_vars

(***************************************************************************)
(* classifyFaith on its own: a name is drawn and classified.               *)
(***************************************************************************)
ProbeWords == {"Diwali", "EID", "Christmas", "Holiday", "Good Friday",
               "Republic Day", "ramzan", "Boxing"}
ProbeNames == ProbeWords \cup {a \o " " \o b : a \in ProbeWords, b \in ProbeWords}

InitClassify ==
  /\ genAI = FALSE /\ clock = "night" /\ ready = FALSE
  /\ configFile = << >> /\ guildConfigs = << >>
  /\ wishCache = << >> /\ cacheFile = << >>
  /\ run = [r \in Runs |-> RunInit]
  /\ cmds = 0 /\ interaction = NoInteraction /\ faults = 0
  /\ sends = {} /\ calls = {} /\ unresolved = {} /\ wishes = << >>
  /\ probe \in {[name |-> n, faith |-> "?"] : n \in ProbeNames}

Classify ==
  /\ probe.faith = "?"
  /\ probe' = [probe EXCEPT !.faith = classifyFaith(probe.name)]
  /\ UNCHANGED <<genAI, clock, ready, guildConfigs, configFile, wishCache,
                 cacheFile, run, cmds, interaction, faults, sends, calls,
                 unresolved, wishes>>

NextClassify == Classify

SpecClassify == InitClassify /\ [][NextClassify]_vars

(***************************************************************************)
(* Properties.                                                             *)
(***************************************************************************)
guildIndex(g) == CHOOSE i \in 1..Len(GuildOrder) : GuildOrder[i] = g

\* the invocation r is inside the loop over the festivals of a guild
Processing(r) == run[r].pc \in {"fest", "gemini", "image", "pexels", "send"}

\* the festival names for which r has called chan.send in guild g
Attempted(r, g) ==
  {s.name : s \in {t \in sends : t.run = r /\ t.guild = g}}
    \cup (IF run[r].pc = "send" /\ GuildOrder[run[r].gi] = g
          THEN {run[r].festivals[run[r].fi].name} ELSE {})

\* the names of the events of raw that the filtering rule keeps for cfg
KeptByRule(raw, cfg) ==
  {raw[i].name : i \in {j \in 1..Len(raw) :
      /\ faithOf[raw[j]] # ""
      /\ arrayIncludes(cfg.religions, faithOf[raw[j]])
      /\ (~cfg.majorOnly \/ majorOf[raw[j]])}}

ClassifiedNames ==
  {h.name : h \in {x \in Range(mapNormalize(Holidays)) : faithOf[x] # ""}}

\* r steps from the head of the loop over the festivals into makeAIWish
CallBegins(r) ==
  /\ run[r].pc = "fest"
  /\ run[r].fi <= Len(run[r].festivals)
  /\ run'[r] # run[r]

WishKeyOf(r) ==
  cacheKey(run[r].dateISO, "wish:" \o run[r].festivals[run[r].fi].name)

\* C1: a run started in preview mode makes no send call and leaves the
\* settings (memory and file) and the generation cache (memory and file)
\* as they were.
C1_PreviewReadOnly ==
  [][\A r \in Runs :
       (run[r].preview /\ run'[r] # run[r]) =>
         /\ sends' = sends
         /\ run'[r].pc # "send"
         /\ guildConfigs' = guildConfigs /\ configFile' = configFile
         /\ wishCache' = wishCache /\ cacheFile' = cacheFile]_vars

\* C2: inside a guild with a resolved channel, the events a run has called
\* chan.send for are among the fetched events that are classified, whose
\* faith is enabled in the settings the run loaded for the guild and that
\* are major when majorOnly is set; at the end of the guild's loop they are
\* exactly those events.  No send is ever made for an unclassified event,
\* and while no command has been handled every send agrees with the rule
\* applied to the guild's stored settings.
C2_FilterRule ==
  /\ \A r \in Runs :
       Processing(r) =>
         LET g    == GuildOrder[run[r].gi]
             kept == KeptByRule(run[r].rawFestivals, run[r].cfg)
         IN  /\ Attempted(r, g) \subseteq kept
             /\ (run[r].pc = "fest" /\ run[r].fi > Len(run[r].festivals))
                  => Attempted(r, g) = kept
  /\ \A s \in sends : s.name \in ClassifiedNames
  /\ cmds = 0 =>
       \A s \in sends :
         s.name \in KeptByRule(mapNormalize(Holidays),
                               merged(guildConfigs, s.guild))

\* a guild's loop has ended with a delivery attempted, majorOnly off, and a
\* classified event left out because its faith is not enabled
C2_Witness ==
  \E r \in Runs :
    /\ run[r].pc = "fest" /\ run[r].fi > Len(run[r].festivals)
    /\ ~run[r].cfg.majorOnly
    /\ Attempted(r, GuildOrder[run[r].gi]) # {}
    /\ \E i \in 1..Len(run[r].rawFestivals) :
         LET h == run[r].rawFestivals[i]
         IN  /\ faithOf[h] # ""
             /\ ~arrayIncludes(run[r].cfg.religions, faithOf[h])
             /\ h.name \notin Attempted(r, GuildOrder[run[r].gi])

\* C3: once a makeAIWish call for a key has returned an accepted provider
\* text (which it wrote to the cache), every call for the key that begins
\* later returns that text and calls no provider.
C3_CacheIdempotence ==
  [][\A r \in Runs :
       CallBegins(r) =>
         LET key == WishKeyOf(r)
         IN  (key \in DOMAIN wishes /\ wishes[key].accepted # EmptyStr) =>
               /\ run'[r].pc = "image"
               /\ run'[r].wishText = wishes[key].accepted
               /\ calls' = calls]_vars

\* C4: once the first makeAIWish call for a key has returned the fallback
\* template, every call for the key that begins later returns that
\* fallback and calls no provider.
C4_FallbackPinning ==
  [][\A r \in Runs :
       CallBegins(r) =>
         LET key == WishKeyOf(r)
         IN  (key \in DOMAIN wishes /\ wishes[key].got.kind = "fallback") =>
               /\ run'[r].pc = "image"
               /\ run'[r].wishText = wishes[key].got
               /\ calls' = calls]_vars

\* C5: a key of the generation cache that holds a value keeps that value in
\* every later state: it is neither replaced nor removed.
C5_WriteOnce ==
  [][\A k \in DOMAIN wishCache :
       k \in DOMAIN wishCache' /\ wishCache'[k] = wishCache[k]]_vars

\* C6: within one run the text provider is called at most once per festival
\* name, and all the sends of the run for one festival name carry the same
\* wish text.
C6_OneTextPerRun ==
  /\ \A c1 \in calls : \A c2 \in calls :
       (c1.op = "gemini" /\ c2.op = "gemini" /\ c1.run = c2.run
          /\ c1.name = c2.name) => c1 = c2
  /\ \A s1 \in sends : \A s2 \in sends :
       (s1.run = s2.run /\ s1.name = s2.name) => s1.text = s2.text

\* C7: no step of a run changes the effective settings (defaults merged
\* with the stored record) of any guild; in particular the write at the end
\* of a guild's processing does not.
C7_WriteIsNoOp ==
  [][\A r \in Runs :
       run'[r] # run[r] =>
         \A g \in Guilds :
           merged(guildConfigs', g) = merged(guildConfigs, g)]_vars

\* the arguments of the last command fail the validation of its kind
channelTypeOf ==
  [id \in UNION {{GuildChannels(g)[i].id : i \in 1..Len(GuildChannels(g))}
                 : g \in Guilds} |->
     LET g == CHOOSE x \in Guilds :
                \E i \in 1..Len(GuildChannels(x)) : GuildChannels(x)[i].id = id
         i == CHOOSE j \in 1..Len(GuildChannels(g)) : GuildChannels(g)[j].id = id
     IN  GuildChannels(g)[i].type]

vocabularyWords ==
  [list \in ReligionInputs |->
     Range(split(toLowerCase(list))) \cap {"hindu", "muslim", "christian"}]

Invalid(i) ==
  \/ i.cmd = "setwisheschannel"
       /\ channelTypeOf[i.arg] \notin {"GuildText", "PublicThread", "PrivateThread"}
  \/ i.cmd = "setreligions" /\ vocabularyWords[i.arg] = {}
  \/ i.cmd = "setmention" /\ lowerOf[i.arg] \notin {"everyone", "here", "none"}

\* C8 as stated: a rejected command leaves the settings in memory and the
\* settings file as they were.
C8_RejectedMutatesNothing ==
  [][(cmds' # cmds /\ interaction'.reply = "rejected") =>
       (guildConfigs' = guildConfigs /\ configFile' = configFile)]_vars

\* C8: a command whose argument fails validation is rejected, and a
\* rejected command leaves the settings file and the effective settings of
\* every guild as they were; the settings in memory keep every record they
\* held and gain at most a record for the guild of the command.
C8_RejectedKeepsSettings ==
  [][cmds' # cmds =>
       /\ Invalid(interaction') => interaction'.reply = "rejected"
       /\ interaction'.reply = "rejected" =>
            /\ configFile' = configFile
            /\ \A g \in Guilds :
                 merged(guildConfigs', g) = merged(guildConfigs, g)
            /\ DOMAIN guildConfigs' =
                 (DOMAIN guildConfigs) \cup {interaction'.gid}]_vars

\* a command was rejected for a guild that had no record: the memory holds
\* a record of defaults for it and the file holds none
C8_Witness ==
  /\ interaction.reply = "rejected"
  /\ interaction.gid \in DOMAIN guildConfigs
  /\ interaction.gid \notin DOMAIN configFile
  /\ guildConfigs[interaction.gid] = defaultsFor

\* C9: when chan.send returns, rejected or not, the run goes on with the
\* next festival of the same guild: same guild, same festivals, same
\* channel and settings, no error; the send is recorded and the settings,
\* the cache and the provider calls are untouched.
C9_FailedSendGoesOn ==
  [][\A r \in Runs :
       (run[r].pc = "send" /\ run'[r] # run[r]) =>
         /\ run'[r].pc = "fest" /\ ~run'[r].err
         /\ run'[r].gi = run[r].gi
         /\ run'[r].festivals = run[r].festivals
         /\ run'[r].fi = run[r].fi + 1
         /\ run'[r].chan = run[r].chan /\ run'[r].cfg = run[r].cfg
         /\ UNCHANGED <<guildConfigs, configFile, wishCache, cacheFile, calls>>
         /\ \E s \in sends' \ sends :
              s.run = r /\ s.name = run[r].festivals[run[r].fi].name]_vars

\* a send was rejected and the same run later called send again, for a
\* later festival of the guild or in a later guild
C9_Witness ==
  \E s1 \in sends : \E s2 \in sends :
    /\ ~s1.ok /\ s1.run = s2.run
    /\ \/ s1.guild = s2.guild /\ s2.fi > s1.fi
       \/ guildIndex(s2.guild) > guildIndex(s1.guild)

\* C10: for a guild with festivals left by the filter and neither a usable
\* configured channel nor a text channel named announcements or general,
\* the run makes no send and no provider call, and it has gone on to the
\* guilds after it.
C10_DeliverySkip ==
  \A p \in unresolved :
    LET r == p[1]
        g == p[2]
    IN  /\ \A s \in sends : ~(s.run = r /\ s.guild = g)
        /\ \A c \in calls : ~(c.run = r /\ c.guild = g)
        /\ run[r].gi > guildIndex(g)
        /\ (run[r].pc = "done" /\ ~run[r].err) => run[r].gi > Len(GuildOrder)

\* a run skipped a guild without a channel and sent in a later guild
C10_Witness ==
  \E p \in unresolved : \E s \in sends :
    s.run = p[1] /\ guildIndex(s.guild) > guildIndex(p[2])

\* the channel the resolution rule names for guild g and configured id:
\* the configured channel if the guild has it and it is text-capable, else
\* the first text channel named announcements or general, else none
ruleTarget ==
  [g \in Guilds |->
     [id \in {null} \cup {GuildChannels(g)[i].id : i \in 1..Len(GuildChannels(g))} |->
        LET cs   == GuildChannels(g)
            hits == {i \in 1..Len(cs) : cs[i].id = id /\ cs[i].type \in TextCapable}
        IN  IF hits # {} THEN cs[CHOOSE i \in hits : TRUE]
            ELSE fallbackOf[g]]]

\* C11: while a run processes a guild, the channel it holds and the
\* channel of every send it has made for the guild are the channel the
\* resolution rule names for the settings the run loaded.
C11_ChannelResolution ==
  \A r \in Runs :
    Processing(r) =>
      LET g      == GuildOrder[run[r].gi]
          target == ruleTarget[g][run[r].cfg.channelId]
      IN  /\ run[r].chan = target
          /\ \A s \in sends : (s.run = r /\ s.guild = g) => s.chan = target.id

Vocabulary == {"hindu", "muslim", "christian"}

\* C12: in every reachable state the religions of every stored record, in
\* memory and in the settings file, are words of the vocabulary
\* {hindu, muslim, christian}.
C12_VocabularySubset ==
  /\ \A g \in DOMAIN guildConfigs :
       Range(guildConfigs[g].religions) \subseteq Vocabulary
  /\ \A g \in DOMAIN configFile :
       Range(configFile[g].religions) \subseteq Vocabulary

\* a setreligions command whose list held words outside the vocabulary and
\* a repeated word was accepted and saved, and a run has then written the
\* settings of a guild
C12_Witness ==
  /\ interaction.cmd = "setreligions" /\ interaction.reply = "ok"
  /\ vocabularyWords[interaction.arg] # Range(split(toLowerCase(interaction.arg)))
  /\ configFile[interaction.gid].religions = <<"muslim">>
  /\ \E r \in Runs : run[r].pc = "done" /\ ~run[r].err /\ run[r].gi > Len(GuildOrder)

ImageKeyOf(r) ==
  cacheKey(run[r].dateISO, "img:" \o run[r].festivals[run[r].fi].name)

\* C13: a getFestivalImage call that finds a URL under its key returns it
\* and calls no provider, and one that finds none calls the provider; a
\* call that ends with an empty URL writes nothing to the cache; and a URL
\* held under a key stays the value of the key, so that every later call
\* returns it.
C13_ImageCache ==
  [][/\ \A r \in Runs :
          (run[r].pc = "image" /\ run'[r] # run[r]) =>
            LET cached == cacheGet(wishCache, ImageKeyOf(r))
            IN  IF Truthy(cached)
                THEN /\ run'[r].pc = "send" /\ run'[r].imageUrl = cached
                     /\ calls' = calls
                ELSE /\ run'[r].pc = "pexels"
                     /\ \E c \in calls' : c.op = "pexels" /\ c.run = r
                          /\ c.guild = GuildOrder[run[r].gi] /\ c.fi = run[r].fi
     /\ \A r \in Runs :
          (run[r].pc = "pexels" /\ run'[r].pc = "send"
             /\ ~Truthy(run'[r].imageUrl)) =>
            (wishCache' = wishCache /\ cacheFile' = cacheFile)
     /\ \A k \in DOMAIN wishCache :
          wishCache[k].kind = "url" =>
            (k \in DOMAIN wishCache' /\ wishCache'[k] = wishCache[k])]_vars

\* a wish text for festival name: an accepted provider output or the
\* fallback template for the name
GoodWish(v, name) ==
  /\ v.name = name
  /\ \/ v.kind = "ai" /\ v.len >= 220
     \/ v = fallbackWish(name)

wishKeyOfName ==
  [n \in {h.name : h \in Range(Holidays)} |-> cacheKey(Today, "wish:" \o n)]

\* C14: every text under a wish key of the cache (memory and file), every
\* text a makeAIWish call has returned and every text sent is a provider
\* output of at least 220 characters or the fallback template of the
\* festival; and a makeAIWish call that is waiting for the provider ends
\* when the provider returns, without a second provider call.
C14_WishTexts ==
  /\ [](/\ \A n \in DOMAIN wishKeyOfName :
              /\ wishKeyOfName[n] \in DOMAIN wishCache
                   => GoodWish(wishCache[wishKeyOfName[n]], n)
              /\ wishKeyOfName[n] \in DOMAIN cacheFile
                   => GoodWish(cacheFile[wishKeyOfName[n]], n)
        /\ \A r \in Runs :
              run[r].pc \in {"image", "pexels", "send"}
                => GoodWish(run[r].wishText, run[r].festivals[run[r].fi].name)
        /\ \A s \in sends : GoodWish(s.text, s.name))
  /\ [][\A r \in Runs :
          (run[r].pc = "gemini" /\ run'[r] # run[r]) =>
            (run'[r].pc \in {"image", "done"} /\ calls' = calls)]_vars

\* with a text provider configured, a fallback template and a provider
\* text have both been sent
C14_Witness ==
  /\ genAI
  /\ \E s \in sends : s.text.kind = "fallback"
  /\ \E s \in sends : s.text.kind = "ai"

\* C15: the step in which an error reaches the catch-all of a run ends the
\* run; it makes no send and no provider call, leaves both files and every
\* key held in memory in place, and touches neither the other run nor the
\* client; and a run ended by an error takes no further step, so no send
\* and no provider call of its own follows.
C15_CatchAll ==
  [][\A r \in Runs :
       /\ (~run[r].err /\ run'[r].err) =>
            /\ run'[r].pc = "done"
            /\ sends' = sends /\ calls' = calls
            /\ cacheFile' = cacheFile /\ configFile' = configFile
            /\ \A k \in DOMAIN wishCache : k \in DOMAIN wishCache'
            /\ \A g \in DOMAIN guildConfigs : g \in DOMAIN guildConfigs'
            /\ ready' = ready
            /\ \A q \in Runs \ {r} : run'[q] = run[q]
       /\ run[r].err =>
            /\ run'[r] = run[r]
            /\ \A s \in sends' \ sends : s.run # r
            /\ \A c \in calls' \ calls : c.run # r]_vars

\* a run was ended by an error after it had sent and the cache file had
\* been written, and the other run has sent and ended without an error
C15_Witness ==
  \E r \in Runs :
    /\ run[r].err /\ run[r].pc = "done"
    /\ cacheFile # << >>
    /\ \E s \in sends : s.run = r
    /\ \E q \in Runs \ {r} : run[q].pc = "done" /\ ~run[q].err
         /\ \E s \in sends : s.run = q

\* the lower-cased name holds a keyword of the category
MatchesFaith(name, c) ==
  LET n  == toLowerCase(name)
      ws == IF c = "hindu" THEN HinduWords
            ELSE IF c = "muslim" THEN MuslimWords ELSE ChristianWords
  IN  \E w \in ws : includes(n, w)

\* C16 as stated: the result is every category whose keyword set the name
\* matches, and absent when it matches none.
C16_ClassifyEveryCategory ==
  probe.faith # "?" =>
    /\ \A c \in Vocabulary : MatchesFaith(probe.name, c) => probe.faith = c
    /\ (\A c \in Vocabulary : ~MatchesFaith(probe.name, c)) => probe.faith = ""

\* C16: the result is absent exactly when the name holds no keyword;
\* otherwise it is a category of which the name holds a keyword (anywhere,
\* also inside a longer word), and the first such category in the order
\* hindu, muslim, christian.
C16_ClassifyFirstCategory ==
  probe.faith # "?" =>
    /\ probe.faith = "" <=> \A c \in Vocabulary : ~MatchesFaith(probe.name, c)
    /\ probe.faith # "" =>
         /\ probe.faith \in Vocabulary
         /\ MatchesFaith(probe.name, probe.faith)
         /\ probe.faith = "muslim" => ~MatchesFaith(probe.name, "hindu")
         /\ probe.faith = "christian" =>
              (~MatchesFaith(probe.name, "hindu")
                 /\ ~MatchesFaith(probe.name, "muslim"))

\* a name with a muslim keyword and with a hindu keyword only inside a
\* longer word ("holi" in "Holiday") was classified hindu
C16_Witness ==
  /\ probe.name = "EID Holiday" /\ probe.faith = "hindu"
  /\ MatchesFaith(probe.name, "muslim")

\* the invocation r is between the start of text generation and the return
\* of send for a (guild, festival) pair
InPair(r) == run[r].pc \in {"gemini", "image", "pexels", "send"}

\* C17: at any moment at most one invocation is processing a (guild,
\* festival) pair, and within an invocation the steps of a pair follow in
\* the order text, image, send, the next pair or guild beginning only after
\* send has returned.
C17_Sequential ==
  /\ [](Cardinality({r \in Runs : InPair(r)}) <= 1)
  /\ [][\A r \in Runs :
          run'[r] # run[r] =>
            /\ run[r].pc = "gemini" => run'[r].pc \in {"image", "done"}
            /\ run[r].pc = "image"  => run'[r].pc \in {"pexels", "send"}
            /\ run[r].pc = "pexels" => run'[r].pc \in {"send", "done"}
            /\ run[r].pc = "send"   => run'[r].pc = "fest"
            /\ (InPair(r) /\ run'[r].pc # "done") =>
                 (run'[r].gi = run[r].gi /\ run'[r].fi >= run[r].fi)]_vars

\* C18: when the last command was a setwisheschannel that replied with
\* success for channel c of a guild, a run that loaded c as the guild's
\* channel and processes the guild holds c as its channel and has sent to
\* c only.
C18_AcceptedChannelUsed ==
  \A r \in Runs :
    (/\ Processing(r)
     /\ interaction.cmd = "setwisheschannel" /\ interaction.reply = "ok"
     /\ interaction.gid = GuildOrder[run[r].gi]
     /\ run[r].cfg.channelId = interaction.arg)
      => /\ run[r].chan.id = interaction.arg
         /\ \A s \in sends :
              (s.run = r /\ s.guild = interaction.gid) => s.chan = interaction.arg

\* C19: all the sends of the date for one guild and one festival name are
\* one send: no two invocations, and no two steps of one invocation, have
\* called send for the same guild and name.
C19_NoDuplicateSends ==
  \A s1 \in sends : \A s2 \in sends :
    (s1.guild = s2.guild /\ s1.name = s2.name) =>
      (s1.run = s2.run /\ s1.fi = s2.fi)

(***************************************************************************)
(* Every external call of a run eventually returns or fails.               *)
(***************************************************************************)
RunStep(r) ==
  \/ FetchReturn(r) \/ NextGuild(r) \/ ResolveReturn(r) \/ NextFest(r)
  \/ GeminiReturn(r) \/ GetImage(r) \/ PexelsReturn(r) \/ SendReturn(r)

\* configs.json as a session with /setwisheschannel left it
StoredDaily ==
  StoredConfigs \cup
    { [g \in {"g1"} |-> [defaultsFor EXCEPT !.channelId = "c1"]],
      [g \in {"g2"} |-> [defaultsFor EXCEPT !.channelId = "t2"]] }

InitDaily ==
  /\ genAI \in BOOLEAN
  /\ clock = "night"
  /\ ready = FALSE
  /\ configFile \in StoredDaily
  /\ guildConfigs = configFile
  /\ wishCache = << >>
  /\ cacheFile = << >>
  /\ run = [r \in Runs |-> RunInit]
  /\ cmds = 0
  /\ interaction = NoInteraction
  /\ faults = 0
  /\ sends = {}
  /\ calls = {}
  /\ unresolved = {}
  /\ wishes = << >>
  /\ probe = NoProbe

\* the daily runs on their own: the gateway event, the 01:00 job and the
\* steps of the two invocations, with no command arriving in between
NextDaily ==
  \/ ClientReady
  \/ OneAM
  \/ \E r \in Runs : FetchReturn(r)
  \/ \E r \in Runs : NextGuild(r)
  \/ \E r \in Runs : ResolveReturn(r)
  \/ \E r \in Runs : NextFest(r)
  \/ \E r \in Runs : GeminiReturn(r)
  \/ \E r \in Runs : GetImage(r)
  \/ \E r \in Runs : PexelsReturn(r)
  \/ \E r \in Runs : SendReturn(r)

\* every external call a run waits for returns or fails, and the event loop
\* runs every continuation that is ready
FairSpec == InitDaily /\ [][NextDaily]_vars /\ \A r \in Runs : WF_vars(RunStep(r))

Started(r) == run[r].pc \notin {"idle", "done"}

\* C20: a run that has started eventually ends; it never holds a guild
\* index below one it held before and never sends twice for one guild and
\* festival; and a run whose event fetch failed makes no provider call, no
\* send and no write to a store.
C20_Termination ==
  /\ \A r \in Runs : Started(r) ~> run[r].pc = "done"
  /\ [](\A s1 \in sends : \A s2 \in sends :
          (s1.run = s2.run /\ s1.guild = s2.guild /\ s1.name = s2.name)
            => s1 = s2)
  /\ [][\A r \in Runs :
          (Started(r) /\ run'[r] # run[r]) =>
            /\ run[r].pc = "send" =>
                 /\ Cardinality(sends') = Cardinality(sends) + 1
                 /\ \/ run'[r].gi > run[r].gi
                    \/ run'[r].gi = run[r].gi /\ run'[r].fi > run[r].fi
            /\ run[r].pc # "send" => sends' = sends
            /\ run'[r].gi >= run[r].gi
            /\ run'[r].gi > run[r].gi => run[r].pc \in {"fetch", "guild", "resolve", "fest"}
            /\ (run[r].pc = "guild" /\ run[r].rawFestivals = << >>) =>
                 /\ run'[r].pc \in {"guild", "done"}
                 /\ UNCHANGED <<sends, calls, guildConfigs, configFile,
                                wishCache, cacheFile>>]_vars

\* both runs have ended: the one started at ClientReady, whose event fetch
\* failed, went through every guild with no call and no send, and the 01:00
\* one sent
C20_Witness ==
  /\ \A r \in Runs : run[r].pc = "done" /\ ~run[r].err
  /\ run["boot"].gi = Len(GuildOrder) + 1
  /\ \A s \in sends : s.run = "cron"
  /\ \A c \in calls : c.run = "cron"
  /\ \E s \in sends : s.run = "cron" /\ s.ok
====
